---- MODULE Spec2Model ----
(***************************************************************************)
(* Model of the billede-spil backend: the list (recent) route, the enrich  *)
(* (upload) route, the batch re-ingest route and the two remix routes.     *)
(* Strings are sequences of one-character strings so that trim, split,     *)
(* join and JSON parsing are computed character by character.              *)
(***************************************************************************)
EXTENDS Integers, Sequences, FiniteSets, TLC

(* ------------------------------------------------------------------ *)
(* Bounds of the model                                                 *)
(* ------------------------------------------------------------------ *)
MaxStrLen == 5

MaxArrLen == 2

MaxParents == 3

MaxDescriptions == 2

MaxItems == 2

MaxModeration == 2

MaxListLen == 2

MaxSkip == 1

MaxLimit == 2

MaxBatch == 4

MaxKeep == 2

MaxObjects == 1

MaxStore == 3

VARIABLES
  csvPc,      \* position of the list-coercion run
  csvIn,      \* raw value handed to csvToArr
  csvOut,     \* csvToArr(csvIn)
  csvAgain    \* csvToArr of csvOut rendered as a comma-joined string

csvVars == <<csvPc, csvIn, csvOut, csvAgain>>

VARIABLES
  rmHandler,      \* which remix route handles the request: "multi" or "legacy"
  rmPc,           \* the await the remix handler is suspended at
  rmBody,         \* the request body
  rmStrength,     \* strength, in thousandths
  rmParents,      \* parents (multi) or normalizedParents (legacy)
  rmFiles,        \* imageFiles: urls of the downloaded parent images
  rmMergePrompt,  \* what mergePrompt carries: remixStrength and parentSummaries
  rmPlan,         \* the parsed plan
  rmPrompt,       \* finalPrompt, as its sequence of clauses
  rmCalls,        \* external calls issued so far, with their outcomes
  rmResp          \* the HTTP response

remixVars ==
  <<rmHandler, rmPc, rmBody, rmStrength, rmParents, rmFiles, rmMergePrompt,
    rmPlan, rmPrompt, rmCalls, rmResp>>

VARIABLES
  enPc,       \* the await the enrich (upload) handler is suspended at
  enBody,     \* the request body
  enUpload,   \* result of cloudinary.uploader.upload
  enAi,       \* the parsed AI descriptor
  enTags,     \* mergedTags
  enCalls,    \* external calls issued so far, with their outcomes
  enResp,     \* the HTTP response
  store,      \* the storage provider's assets, newest first
  lsPc,       \* the await the list (recent) handler is suspended at
  lsQuery,    \* skip and limit of the request
  lsCalls,    \* external calls issued so far, with their outcomes
  lsResp      \* the HTTP response

enrichVars == <<enPc, enBody, enUpload, enAi, enTags, enCalls, enResp>>

listVars == <<lsPc, lsQuery, lsCalls, lsResp>>

assetVars == <<enrichVars, store, listVars>>

VARIABLES
  btPc,       \* the await the batch re-ingest handler is suspended at
  btData,     \* data: the images the list route returned
  btCalls,    \* the fan-out: state of the upload fetch of each image
  btResp      \* the HTTP response

batchVars == <<btPc, btData, btCalls, btResp>>

VARIABLES
  anPc,       \* position of the anchor-extraction run
  anHandler,  \* which remix route's buildAnchors runs: "multi" or "legacy"
  anIn,       \* the parent descriptor handed to buildAnchors
  anOut       \* buildAnchors(anIn)

anchorVars == <<anPc, anHandler, anIn, anOut>>

vars == <<csvVars, remixVars, assetVars, batchVars, anchorVars>>

notRemixVars == <<csvVars, assetVars, batchVars, anchorVars>>

notAssetVars == <<csvVars, remixVars, batchVars, anchorVars>>

notBatchVars == <<csvVars, remixVars, assetVars, anchorVars>>

notAnchorVars == <<csvVars, remixVars, assetVars, batchVars>>

(* The model follows one request at a time (and a list request after an  *)
(* enrich request, which reads what the enrich request stored).          *)
NoAssetRequest == enPc = "idle" /\ lsPc = "idle"

NoRemixRequest == rmPc = "idle"

NoBatchRequest == btPc = "idle"

(* ------------------------------------------------------------------ *)
(* Strings                                                             *)
(* ------------------------------------------------------------------ *)
Null == [kind |-> "null"]

StrV(s) == [kind |-> "str", s |-> s]

ArrV(a) == [kind |-> "arr", a |-> a]

SeqsUpTo(S, n) == UNION {[1..k -> S] : k \in 0..n}

RECURSIVE TrimStart(_)
TrimStart(s) ==
  IF s # <<>> /\ Head(s) = " " THEN TrimStart(Tail(s)) ELSE s

RECURSIVE TrimEnd(_)
TrimEnd(s) ==
  IF s # <<>> /\ s[Len(s)] = " " THEN TrimEnd(SubSeq(s, 1, Len(s) - 1)) ELSE s

Trim(s) == TrimEnd(TrimStart(s))

RECURSIVE SplitFrom(_, _, _, _)
SplitFrom(s, sep, i, cur) ==
  IF i > Len(s) THEN <<cur>>
  ELSE IF s[i] = sep THEN <<cur>> \o SplitFrom(s, sep, i + 1, <<>>)
  ELSE SplitFrom(s, sep, i + 1, Append(cur, s[i]))

Split(s, sep) == SplitFrom(s, sep, 1, <<>>)

RECURSIVE Join(_, _)
Join(arr, sep) ==
  IF arr = <<>> THEN <<>>
  ELSE IF Len(arr) = 1 THEN arr[1]
  ELSE arr[1] \o sep \o Join(Tail(arr), sep)

MapTrim(arr) == [i \in 1..Len(arr) |-> Trim(arr[i])]

NonEmpty(s) == s # <<>>

FilterBoolean(arr) == SelectSeq(arr, NonEmpty)

(* ------------------------------------------------------------------ *)
(* JSON.parse, for the characters of the model's alphabet              *)
(* ------------------------------------------------------------------ *)
ObjectString ==
  <<"[", "o", "b", "j", "e", "c", "t", " ", "O", "b", "j", "e", "c", "t", "]">>

JsonFail == [ok |-> FALSE, next |-> 0, isArr |-> FALSE, str |-> <<>>, elems |-> <<>>]

JsonOk(next, isArr, str, elems) ==
  [ok |-> TRUE, next |-> next, isArr |-> isArr, str |-> str, elems |-> elems]

RECURSIVE SkipWs(_, _)
SkipWs(s, i) ==
  IF i <= Len(s) /\ s[i] = " " THEN SkipWs(s, i + 1) ELSE i

RECURSIVE ScanQuote(_, _)
ScanQuote(s, i) ==
  IF i > Len(s) THEN 0
  ELSE IF s[i] = "\"" THEN i
  ELSE ScanQuote(s, i + 1)

RECURSIVE ScanDigits(_, _)
ScanDigits(s, i) ==
  IF i <= Len(s) /\ s[i] = "1" THEN ScanDigits(s, i + 1) ELSE i

RECURSIVE ParseValue(_, _)
RECURSIVE ParseElems(_, _, _)
ParseValue(s, i) ==
  IF i > Len(s) THEN JsonFail
  ELSE IF s[i] = "\"" THEN
    LET j == ScanQuote(s, i + 1)
    IN  IF j = 0 THEN JsonFail
        ELSE JsonOk(j + 1, FALSE, SubSeq(s, i + 1, j - 1), <<>>)
  ELSE IF s[i] = "1" THEN
    LET j == ScanDigits(s, i)
    IN  JsonOk(j, FALSE, SubSeq(s, i, j - 1), <<>>)
  ELSE IF s[i] = "[" THEN
    LET j == SkipWs(s, i + 1)
    IN  IF j <= Len(s) /\ s[j] = "]" THEN JsonOk(j + 1, TRUE, <<>>, <<>>)
        ELSE ParseElems(s, j, <<>>)
  ELSE IF s[i] = "{" THEN
    LET j == SkipWs(s, i + 1)
    IN  IF j <= Len(s) /\ s[j] = "}" THEN JsonOk(j + 1, FALSE, ObjectString, <<>>)
        ELSE JsonFail
  ELSE JsonFail

ParseElems(s, j, acc) ==
  LET v == ParseValue(s, j)
  IN  IF ~v.ok THEN JsonFail
      ELSE LET k == SkipWs(s, v.next)
               got == Append(acc, v.str)
           IN  IF k > Len(s) THEN JsonFail
               ELSE IF s[k] = "," THEN ParseElems(s, SkipWs(s, k + 1), got)
               ELSE IF s[k] = "]" THEN JsonOk(k + 1, TRUE, Join(got, <<",">>), got)
               ELSE JsonFail

JsonParse(s) ==
  LET v == ParseValue(s, SkipWs(s, 1))
  IN  IF v.ok /\ SkipWs(s, v.next) = Len(s) + 1 THEN v ELSE JsonFail

(* ------------------------------------------------------------------ *)
(* List route: csvToArr                                                *)
(* ------------------------------------------------------------------ *)
StartsWith(s, c) == s # <<>> /\ s[1] = c

EndsWith(s, c) == s # <<>> /\ s[Len(s)] = c

(* csvToArr with a catch that gives up instead of falling through to the split. *)
csvToArrCatchReturnsEmpty(v) ==
  IF v.kind = "null" \/ (v.kind = "str" /\ v.s = <<>>) THEN <<>>
  ELSE IF v.kind = "arr" THEN FilterBoolean(MapTrim(v.a))
  ELSE
    LET s == Trim(v.s)
        bracketed == \/ (StartsWith(s, "[") /\ EndsWith(s, "]"))
                     \/ (StartsWith(s, "{") /\ EndsWith(s, "}"))
        parsed == JsonParse(s)
    IN  IF s = <<>> THEN <<>>
        ELSE IF bracketed
          THEN IF parsed.ok /\ parsed.isArr
                 THEN FilterBoolean(MapTrim(parsed.elems))
                 ELSE <<>>
        ELSE FilterBoolean(MapTrim(Split(s, ",")))

csvToArr(v) ==
  IF v.kind = "null" \/ (v.kind = "str" /\ v.s = <<>>) THEN <<>>
  ELSE IF v.kind = "arr" THEN FilterBoolean(MapTrim(v.a))
  ELSE
    LET s == Trim(v.s)
        bracketed == \/ (StartsWith(s, "[") /\ EndsWith(s, "]"))
                     \/ (StartsWith(s, "{") /\ EndsWith(s, "}"))
        parsed == JsonParse(s)
    IN  IF s = <<>> THEN <<>>
        ELSE IF bracketed /\ parsed.ok /\ parsed.isArr
          THEN FilterBoolean(MapTrim(parsed.elems))
        ELSE FilterBoolean(MapTrim(Split(s, ",")))

(* ------------------------------------------------------------------ *)
(* Remix routes: helpers                                               *)
(* ------------------------------------------------------------------ *)
Min(a, b) == IF a <= b THEN a ELSE b

Max(a, b) == IF a >= b THEN a ELSE b

Take(arr, n) == SubSeq(arr, 1, Min(n, Len(arr)))

(* Array.from(new Set(arr)): first occurrences, in order. *)
RECURSIVE SetOrderFrom(_, _)
SetOrderFrom(arr, acc) ==
  IF arr = <<>> THEN acc
  ELSE SetOrderFrom(Tail(arr),
                    IF \E j \in 1..Len(acc) : acc[j] = Head(arr)
                      THEN acc
                      ELSE Append(acc, Head(arr)))

SetOrder(arr) == SetOrderFrom(arr, <<>>)

uniqMulti(arr) == SetOrder(FilterBoolean(MapTrim(arr)))

uniqLegacy(arr) == SetOrder(MapTrim(FilterBoolean(arr)))

uniq(h, arr) == IF h = "multi" THEN uniqMulti(arr) ELSE uniqLegacy(arr)

FirstIfTruthy(arr) ==
  IF arr # <<>> /\ arr[1] # <<>> THEN <<arr[1]>> ELSE <<>>

(* A plausible slip: the final .slice(0, 10) left out. *)
buildAnchorsUncut(h, d) ==
  uniq(h, d.must_keep \o Take(d.objects, 5)
            \o FirstIfTruthy(d.vibe) \o FirstIfTruthy(d.people))

buildAnchors(h, d) ==
  Take(uniq(h, d.must_keep \o Take(d.objects, 5)
                 \o FirstIfTruthy(d.vibe) \o FirstIfTruthy(d.people)),
       10)

EmptyDescriptor == [must_keep |-> <<>>, objects |-> <<>>, vibe |-> <<>>, people |-> <<>>]

(* Math.max(0, Math.min(1, remixStrength)), in thousandths. *)
DefaultStrength(h) == IF h = "multi" THEN 650 ELSE 700

(* ClampStrength without the lower bound: Math.min(1, remixStrength). *)
ClampStrengthAboveOnly(h, rs) ==
  Min(1000, IF rs.given THEN rs.value ELSE DefaultStrength(h))

ClampStrength(h, rs) ==
  Max(0, Min(1000, IF rs.given THEN rs.value ELSE DefaultStrength(h)))

HighlyRemixed(h) ==
  IF h = "multi"
    THEN "Highly remixed reinterpretation with bold recomposition and surprising fusions."
    ELSE "Highly remixed reinterpretation, bold recomposition, surprising fusions."

CreativeRemix(h) ==
  IF h = "multi"
    THEN "Creative remix reinterpretation; allow recomposition, scale shifts, and fused elements."
    ELSE "Creative remix reinterpretation, allow recomposition and scale shifts."

LightRemix(h) ==
  IF h = "multi"
    THEN "Light remix; small but noticeable rearrangements and stylized integrations."
    ELSE "Light remix, subtle rearrangements and stylized integrations."

HighThreshold(h) == IF h = "multi" THEN 800 ELSE 850

CreativeThreshold(h) == IF h = "multi" THEN 500 ELSE 550

remixLine(h, strength) ==
  IF strength >= HighThreshold(h) THEN HighlyRemixed(h)
  ELSE IF strength >= CreativeThreshold(h) THEN CreativeRemix(h)
  ELSE LightRemix(h)

(* ------------------------------------------------------------------ *)
(* Remix routes: the plan and the final prompt                         *)
(* ------------------------------------------------------------------ *)
PlanScalars ==
  {"scene", "subject", "setting", "composition", "medium", "realism",
   "lighting", "palette", "style_notes", "remix_directive"}

PlanFields == PlanScalars \cup {"must_include", "avoid"}

(* `${plan.f}` and plan.f ? ... : "" read a missing field as undefined. *)
Interpolate(plan, f) == IF f \in plan.missing THEN "undefined" ELSE plan.text[f]

Truthy(plan, f) == f \notin plan.missing /\ plan.text[f] # ""

Clause(name, parts, items) == [clause |-> name, parts |-> parts, items |-> items]

(* The entries of the array literal, before .filter(Boolean).join(" "). *)
PromptEntries(h, plan, strength) ==
  << <<Clause("core", <<Interpolate(plan, "scene"), Interpolate(plan, "subject"),
                        Interpolate(plan, "setting")>>, <<>>)>>,
     <<Clause("remixLine", <<remixLine(h, strength)>>, <<>>)>>,
     IF Truthy(plan, "remix_directive")
       THEN <<Clause("directive", <<plan.text["remix_directive"]>>, <<>>)>>
       ELSE <<>>,
     <<Clause("composition", <<Interpolate(plan, "composition")>>, <<>>)>>,
     <<Clause("medium", <<Interpolate(plan, "medium"), Interpolate(plan, "realism")>>, <<>>)>>,
     <<Clause("lighting", <<Interpolate(plan, "lighting"), Interpolate(plan, "palette")>>, <<>>)>>,
     IF Truthy(plan, "style_notes")
       THEN <<Clause("style", <<plan.text["style_notes"]>>, <<>>)>>
       ELSE <<>>,
     <<Clause("mustInclude", <<>>,
              uniq(h, IF "must_include" \in plan.missing THEN <<>> ELSE plan.must_include))>>,
     IF "avoid" \notin plan.missing /\ Len(plan.avoid) > 0
       THEN <<Clause("avoid", <<>>, uniq(h, plan.avoid))>>
       ELSE <<>>,
     <<Clause("constraints", <<>>, <<>>)>> >>

RECURSIVE Flatten(_)
Flatten(ss) == IF ss = <<>> THEN <<>> ELSE Head(ss) \o Flatten(Tail(ss))

finalPrompt(h, plan, strength) == Flatten(PromptEntries(h, plan, strength))

(* Rendering throws a TypeError: plan is null, or (multi) uniq(undefined). *)
RenderThrows(h, plan) ==
  \/ plan.kind = "null"
  \/ h = "multi" /\ "must_include" \in plan.missing

(* The RemixPlan schema declared for the structured-output call. *)
MustIncludeMin == 4

MustIncludeMax == 16

AvoidMax == 14

SchemaValid(plan) ==
  /\ plan.kind = "object"
  /\ plan.missing = {}
  /\ Len(plan.must_include) >= MustIncludeMin
  /\ Len(plan.must_include) <= MustIncludeMax
  /\ Len(plan.avoid) <= AvoidMax

(* ------------------------------------------------------------------ *)
(* Remix routes: requests and the replies of the external services     *)
(* ------------------------------------------------------------------ *)
Word(n) == [k \in 1..n |-> "a"]

Words(n) == [i \in 1..n |-> Word(i)]

ItemStrings == { <<" ">>, <<"a">>, <<"A">> }

ParentDescriptors ==
  << [must_keep |-> << <<"a">> >>, objects |-> << <<"A">>, <<"a">> >>,
      vibe |-> << <<" ">> >>, people |-> <<>>],
     EmptyDescriptor >>

Parent(i) == [url |-> i, descriptor |-> ParentDescriptors[(i % 2) + 1]]

Parents(n) == [i \in 1..n |-> Parent(i)]

NoUrl == 0

StrengthInputs ==
  {-500, 0, 250, 499, 500, 549, 550, 799, 800, 849, 850, 1000, 1500}

StrengthFields ==
  {[given |-> FALSE, value |-> 0]} \cup {[given |-> TRUE, value |-> v] : v \in StrengthInputs}

(* Requests with more parents than either handler summarises. *)
LongBodies ==
  { [parents |-> Parents(n), descriptions |-> <<>>, parentIds |-> <<>>,
     remixStrength |-> [given |-> FALSE, value |-> 0]] : n \in {11, 17} }

RemixBodies ==
  { [parents |-> Parents(n), descriptions |-> [i \in 1..m |-> "description"],
     parentIds |-> [i \in 1..Min(m, 1) |-> 100 + i], remixStrength |-> rs] :
      n \in 0..MaxParents, m \in 0..MaxDescriptions, rs \in StrengthFields }
    \cup LongBodies

BaseText == [f \in PlanScalars |-> f]

BasePlan ==
  [kind |-> "object", missing |-> {}, text |-> BaseText,
   must_include |-> Words(MustIncludeMin), avoid |-> <<>>]

MustIncludeChoices ==
  SeqsUpTo(ItemStrings, MaxItems)
    \cup {Words(n) : n \in {MustIncludeMin - 1, MustIncludeMax, MustIncludeMax + 1}}
    \cup { << <<" ", "a">>, <<"a">>, <<"b">>, <<"A">>, <<"c">> >> }

AvoidChoices ==
  SeqsUpTo({<<>>, <<" ">>, <<"a">>}, 1) \cup {Words(AvoidMax), Words(AvoidMax + 1)}

PlanValues ==
  {[BasePlan EXCEPT !.must_include = mi] : mi \in MustIncludeChoices}
    \cup {[BasePlan EXCEPT !.avoid = av] : av \in AvoidChoices}
    \cup {[BasePlan EXCEPT !.missing = {f}] : f \in PlanFields}
    \cup {[BasePlan EXCEPT !.text[f] = ""] : f \in {"style_notes", "remix_directive"}}
    \cup {[BasePlan EXCEPT !.missing = PlanFields], [BasePlan EXCEPT !.kind = "null"]}

ProviderErrors == {"provider: quota exceeded for key sk-1"}

(* planResp.choices[0]?.message?.content ?? "{}", then JSON.parse. *)
PlanReplies ==
  {[kind |-> "error", text |-> e, plan |-> BasePlan] : e \in ProviderErrors}
    \cup {[kind |-> "noContent", text |-> "", plan |-> [BasePlan EXCEPT !.missing = PlanFields]]}
    \cup {[kind |-> "invalidJson", text |-> "", plan |-> BasePlan]}
    \cup {[kind |-> "json", text |-> "", plan |-> pl] : pl \in PlanValues}

NoPlan == [BasePlan EXCEPT !.kind = "none"]

NullValue == "<null>"

OutputUrl == "https://res.cloudinary.com/remix.png"

(* ------------------------------------------------------------------ *)
(* Remix routes: the POST handlers                                     *)
(* ------------------------------------------------------------------ *)
NoBody ==
  [parents |-> <<>>, descriptions |-> <<>>, parentIds |-> <<>>,
   remixStrength |-> [given |-> FALSE, value |-> 0]]

NoResp ==
  [status |-> 0, error |-> "", remixedPrompt |-> <<>>, plan |-> NoPlan,
   imageUrl |-> NullValue, parentUrls |-> <<>>]

ErrorResp(status, msg) == [NoResp EXCEPT !.status = status, !.error = msg]

RemixIdle ==
  /\ rmHandler = "none"
  /\ rmPc = "idle"
  /\ rmBody = NoBody
  /\ rmStrength = 0
  /\ rmParents = <<>>
  /\ rmFiles = <<>>
  /\ rmMergePrompt = [remixStrength |-> 0, parentSummaries |-> <<>>]
  /\ rmPlan = NoPlan
  /\ rmPrompt = <<>>
  /\ rmCalls = <<>>
  /\ rmResp = NoResp

Call(name, outcome) == [call |-> name, outcome |-> outcome]

Issue(name) == rmCalls' = Append(rmCalls, Call(name, "pending"))

Settle(outcome) ==
  rmCalls' = [rmCalls EXCEPT ![Len(rmCalls)].outcome = outcome]

RemixFailureMessage(h) ==
  IF h = "multi" THEN "Failed to remix images" ELSE "Failed to generate content"

(* A plausible slip: the catch block answers with err.message. *)
RemixCatchEchoesError(h, err) == ErrorResp(500, err)

(* The catch block of POST: err is what was thrown. *)
RemixCatch(h, err) == ErrorResp(500, RemixFailureMessage(h))

SliceCap(h) == IF h = "multi" THEN 16 ELSE 10

parentSummaries(h, ps) ==
  [i \in 1..Min(Len(ps), SliceCap(h)) |->
     IF h = "multi"
       THEN [index |-> i, url |-> ps[i].url, anchors |-> buildAnchors(h, ps[i].descriptor)]
       ELSE [index |-> i, anchors |-> buildAnchors(h, ps[i].descriptor)]]

(* normalizedParents of the legacy route. *)
normalizedParents(body) ==
  IF Len(body.parents) >= 2 THEN body.parents
  ELSE [i \in 1..Len(body.descriptions) |->
          [url |-> IF i <= Len(body.parentIds) THEN body.parentIds[i] ELSE NoUrl,
           descriptor |-> EmptyDescriptor]]

(* A plausible slip: the guard written as parents.length < 1. *)
MinParentsOne == 2 - 1

MinParents == 2

(* POST of the multi-image route, up to the await of the parent downloads. *)
PostMulti(body) ==
  /\ rmPc = "idle"
  /\ NoAssetRequest /\ NoBatchRequest
  /\ rmHandler' = "multi"
  /\ rmBody' = body
  /\ IF Len(body.parents) < MinParents
       THEN /\ rmResp' = ErrorResp(400, "Provide at least 2 parents.")
            /\ rmPc' = "done"
            /\ UNCHANGED <<rmStrength, rmParents, rmCalls>>
       ELSE /\ rmStrength' = ClampStrength("multi", body.remixStrength)
            /\ rmParents' = body.parents
            /\ Issue("download")
            /\ rmPc' = "download"
            /\ UNCHANGED rmResp
  /\ UNCHANGED <<rmFiles, rmMergePrompt, rmPlan, rmPrompt>>

(* POST of the legacy-compatible route, up to the await of the plan call. *)
PostLegacy(body) ==
  /\ rmPc = "idle"
  /\ NoAssetRequest /\ NoBatchRequest
  /\ rmHandler' = "legacy"
  /\ rmBody' = body
  /\ rmStrength' = ClampStrength("legacy", body.remixStrength)
  /\ rmParents' = normalizedParents(body)
  /\ IF Len(normalizedParents(body)) < MinParents
       THEN /\ rmResp' = ErrorResp(400, "Provide at least 2 parents.")
            /\ rmPc' = "done"
            /\ UNCHANGED <<rmMergePrompt, rmCalls>>
       ELSE /\ rmMergePrompt' =
                 [remixStrength |-> ClampStrength("legacy", body.remixStrength),
                  parentSummaries |-> parentSummaries("legacy", normalizedParents(body))]
            /\ Issue("plan")
            /\ rmPc' = "plan"
            /\ UNCHANGED rmResp
  /\ UNCHANGED <<rmFiles, rmPlan, rmPrompt>>

(* Promise.all of urlToFile settles: every download ok, or one threw. *)
DownloadsReturn(ok, err) ==
  /\ rmPc = "download"
  /\ IF ok
       THEN /\ rmFiles' = [i \in 1..Min(Len(rmParents), 16) |-> rmParents[i].url]
            /\ rmMergePrompt' = [remixStrength |-> rmStrength,
                                 parentSummaries |-> parentSummaries("multi", rmParents)]
            /\ rmCalls' = Append([rmCalls EXCEPT ![Len(rmCalls)].outcome = "ok"],
                                 Call("plan", "pending"))
            /\ rmPc' = "plan"
            /\ UNCHANGED rmResp
       ELSE /\ Settle("failed")
            /\ rmResp' = RemixCatch(rmHandler, err)
            /\ rmPc' = "done"
            /\ UNCHANGED <<rmFiles, rmMergePrompt>>
  /\ UNCHANGED <<rmHandler, rmBody, rmStrength, rmParents, rmPlan, rmPrompt>>

(* The plan call settles; the plan is parsed, the prompt rendered and the *)
(* image call issued.                                                     *)
PlanReturns(reply) ==
  /\ rmPc = "plan"
  /\ IF reply.kind = "error"
       THEN /\ Settle("failed")
            /\ rmResp' = RemixCatch(rmHandler, reply.text)
            /\ rmPc' = "done"
            /\ UNCHANGED <<rmPlan, rmPrompt>>
     ELSE IF reply.kind = "invalidJson"
       THEN /\ Settle("ok")
            /\ rmResp' = RemixCatch(rmHandler, "SyntaxError")
            /\ rmPc' = "done"
            /\ UNCHANGED <<rmPlan, rmPrompt>>
     ELSE IF RenderThrows(rmHandler, reply.plan)
       THEN /\ Settle("ok")
            /\ rmPlan' = reply.plan
            /\ rmResp' = RemixCatch(rmHandler, "TypeError")
            /\ rmPc' = "done"
            /\ UNCHANGED rmPrompt
     ELSE /\ rmPlan' = reply.plan
          /\ rmPrompt' = finalPrompt(rmHandler, reply.plan, rmStrength)
          /\ rmCalls' = Append([rmCalls EXCEPT ![Len(rmCalls)].outcome = "ok"],
                               Call("image", "pending"))
          /\ rmPc' = "image"
          /\ UNCHANGED rmResp
  /\ UNCHANGED <<rmHandler, rmBody, rmStrength, rmParents, rmFiles, rmMergePrompt>>

ImageReplies(h) ==
  {[kind |-> "error", text |-> e] : e \in ProviderErrors}
    \cup (IF h = "multi" THEN {[kind |-> "notOk", text |-> e] : e \in ProviderErrors} ELSE {})
    \cup {[kind |-> "noData", text |-> ""], [kind |-> "data", text |-> ""]}

(* fetch of images/edits settles (multi). *)
ImageReturnsMulti(reply) ==
  /\ rmPc = "image"
  /\ rmHandler = "multi"
  /\ IF reply.kind \in {"error", "notOk"}
       THEN /\ Settle("failed")
            /\ rmResp' = RemixCatch("multi", reply.text)
            /\ rmPc' = "done"
     ELSE IF reply.kind = "noData"
       THEN /\ Settle("empty")
            /\ rmResp' = ErrorResp(500, "No image returned.")
            /\ rmPc' = "done"
     ELSE /\ rmCalls' = Append([rmCalls EXCEPT ![Len(rmCalls)].outcome = "ok"],
                               Call("upload", "pending"))
          /\ rmPc' = "upload"
          /\ UNCHANGED rmResp
  /\ UNCHANGED <<rmHandler, rmBody, rmStrength, rmParents, rmFiles, rmMergePrompt,
                 rmPlan, rmPrompt>>

(* openai.images.generate settles (legacy); the response follows at once. *)
ImageReturnsLegacy(reply) ==
  /\ rmPc = "image"
  /\ rmHandler = "legacy"
  /\ IF reply.kind = "error"
       THEN /\ Settle("failed")
            /\ rmResp' = RemixCatch("legacy", reply.text)
     ELSE /\ Settle(IF reply.kind = "data" THEN "ok" ELSE "empty")
          /\ rmResp' =
               [status |-> 200, error |-> "", remixedPrompt |-> rmPrompt, plan |-> rmPlan,
                imageUrl |-> IF reply.kind = "data" THEN OutputUrl ELSE NullValue,
                parentUrls |-> SelectSeq([i \in 1..Len(rmParents) |-> rmParents[i].url],
                                         LAMBDA u : u # NoUrl)]
  /\ rmPc' = "done"
  /\ UNCHANGED <<rmHandler, rmBody, rmStrength, rmParents, rmFiles, rmMergePrompt,
                 rmPlan, rmPrompt>>

UploadReplies ==
  {[kind |-> "error", text |-> e] : e \in ProviderErrors}
    \cup {[kind |-> "noUrl", text |-> ""], [kind |-> "ok", text |-> ""]}

(* uploadB64ToCloudinary settles (multi); the response follows at once. *)
UploadReturns(reply) ==
  /\ rmPc = "upload"
  /\ IF reply.kind = "ok"
       THEN /\ Settle("ok")
            /\ rmResp' =
                 [status |-> 200, error |-> "", remixedPrompt |-> rmPrompt, plan |-> rmPlan,
                  imageUrl |-> OutputUrl,
                  parentUrls |-> [i \in 1..Len(rmParents) |-> rmParents[i].url]]
       ELSE /\ Settle("failed")
            /\ rmResp' = RemixCatch("multi",
                 IF reply.kind = "error" THEN reply.text ELSE "Cloudinary returned no secure_url")
  /\ rmPc' = "done"
  /\ UNCHANGED <<rmHandler, rmBody, rmStrength, rmParents, rmFiles, rmMergePrompt,
                 rmPlan, rmPrompt>>

RemixNext ==
  \/ \E body \in RemixBodies : PostMulti(body) /\ UNCHANGED notRemixVars
  \/ \E body \in RemixBodies : PostLegacy(body) /\ UNCHANGED notRemixVars
  \/ \E ok \in BOOLEAN, e \in ProviderErrors : DownloadsReturn(ok, e) /\ UNCHANGED notRemixVars
  \/ \E reply \in PlanReplies : PlanReturns(reply) /\ UNCHANGED notRemixVars
  \/ \E reply \in ImageReplies("multi") : ImageReturnsMulti(reply) /\ UNCHANGED notRemixVars
  \/ \E reply \in ImageReplies("legacy") : ImageReturnsLegacy(reply) /\ UNCHANGED notRemixVars
  \/ \E reply \in UploadReplies : UploadReturns(reply) /\ UNCHANGED notRemixVars


(* ------------------------------------------------------------------ *)
(* Enrich (upload) route                                               *)
(* ------------------------------------------------------------------ *)
LowerChar(c) == IF c = "A" THEN "a" ELSE IF c = "B" THEN "b" ELSE c

ToLowerCase(s) == [i \in 1..Len(s) |-> LowerChar(s[i])]

RECURSIVE dedupLowerFrom(_, _, _)
dedupLowerFrom(arr, seen, out) ==
  IF arr = <<>> THEN out
  ELSE LET k == ToLowerCase(Trim(Head(arr)))
       IN  IF k = <<>> \/ k \in seen
             THEN dedupLowerFrom(Tail(arr), seen, out)
             ELSE dedupLowerFrom(Tail(arr), seen \cup {k}, Append(out, Trim(Head(arr))))

dedupLower(arr) == dedupLowerFrom(arr, {}, <<>>)

AiScalars ==
  {"title", "caption", "altText", "so_me_type", "trend", "feeling", "subject",
   "setting", "medium", "realism", "lighting", "palette", "composition", "style"}

AiLists == {"tags", "vibe", "objects", "scenes", "people", "must_keep"}

(* A container of context or metadata fields: key -> raw value. *)
Get(obj, k) == IF k \in DOMAIN obj THEN obj[k] ELSE Null

EmptyContainer == [k \in {} |-> Null]

AwsRek == <<"a", "w", "s", "_", "r", "e", "k">>

Manual == <<"m", "a", "n", "u", "a", "l">>

IsPrefix(p, s) == Len(p) <= Len(s) /\ SubSeq(s, 1, Len(p)) = p

(* A plausible slip: only moderation[0] is inspected. *)
wasRejectedFirstEntry(moderation) ==
  /\ moderation.present
  /\ moderation.entries # <<>>
  /\ moderation.entries[1].status = "rejected"
  /\ IsPrefix(AwsRek, moderation.entries[1].kind)

(* moderationArr?.some(m => m.status === "rejected" && m.kind.startsWith("aws_rek")) *)
wasRejected(moderation) ==
  /\ moderation.present
  /\ \E i \in 1..Len(moderation.entries) :
       /\ moderation.entries[i].status = "rejected"
       /\ IsPrefix(AwsRek, moderation.entries[i].kind)

PolicyMessage == "image does not adhere to our policy"

EnrichFailureMessage == "Failed to upload image"

(* The catch block of POST: err is what was thrown. *)
EnrichCatch(err) == [status |-> 500, error |-> EnrichFailureMessage]

TagCap == 40

AiList(ai, f) == IF f \in ai.missing THEN <<>> ELSE ai.lists[f]

(* A plausible slip: the .slice(0, 40) left out. *)
mergedTagsUncut(ai, tags) ==
  dedupLower(AiList(ai, "tags") \o AiList(ai, "vibe") \o AiList(ai, "objects")
               \o AiList(ai, "must_keep")
               \o (IF tags # <<>> THEN Split(tags, ",") ELSE <<>>))

mergedTags(ai, tags) ==
  Take(dedupLower(AiList(ai, "tags") \o AiList(ai, "vibe") \o AiList(ai, "objects")
                    \o AiList(ai, "must_keep")
                    \o (IF tags # <<>> THEN Split(tags, ",") ELSE <<>>)),
       TagCap)

OrEmpty(v) == IF v = Null THEN StrV(<<>>) ELSE v

(* The context option of cloudinary.uploader.upload. *)
UploadContext(body) ==
  [k \in {"alt", "caption", "parentIds", "community"} |->
     CASE k = "alt" -> StrV(body.title)
       [] k = "caption" -> StrV(body.title)
       [] k = "parentIds" -> OrEmpty(body.parentIds)
       [] k = "community" -> OrEmpty(body.community)]

AiContextKey ==
  [title |-> "ai_title", caption |-> "ai_caption", trend |-> "ai_trend",
   so_me_type |-> "ai_so_me_type", feeling |-> "ai_feeling", style |-> "ai_style",
   subject |-> "ai_subject", setting |-> "ai_setting", medium |-> "ai_medium",
   realism |-> "ai_realism", lighting |-> "ai_lighting", palette |-> "ai_palette",
   composition |-> "ai_composition", altText |-> "alt"]

CommaSpace == <<",", " ">>

SpacePipeSpace == <<" ", "|", " ">>

AiListContextKey ==
  [vibe |-> "ai_vibe", objects |-> "ai_objects", scenes |-> "ai_scenes",
   people |-> "ai_people", must_keep |-> "ai_must_keep"]

ListSeparator(f) == IF f = "scenes" THEN SpacePipeSpace ELSE CommaSpace

(* The context option of cloudinary.uploader.explicit; a field the AI reply *)
(* lacks is undefined and is not written.                                   *)
ExplicitContext(body, ai) ==
  LET scalarKeys == {AiContextKey[f] : f \in AiScalars \ ai.missing}
      listKeys == {AiListContextKey[f] : f \in DOMAIN AiListContextKey}
      keys == {"caption", "community", "parentIds"} \cup scalarKeys \cup listKeys
  IN  [k \in keys |->
         IF k = "caption" THEN StrV(body.title)
         ELSE IF k = "community" THEN OrEmpty(body.community)
         ELSE IF k = "parentIds" THEN OrEmpty(body.parentIds)
         ELSE IF k \in scalarKeys
           THEN StrV(ai.text[CHOOSE f \in AiScalars : AiContextKey[f] = k])
         ELSE LET f == CHOOSE g \in DOMAIN AiListContextKey : AiListContextKey[g] = k
              IN  StrV(Join(AiList(ai, f), ListSeparator(f)))]

PublicId == StrV(<<"f", "/", "i", "d">>)

Asset(publicId, context, tags) ==
  [public_id |-> publicId, context |-> context, metadata |-> EmptyContainer, tags |-> tags]

NoAi ==
  [kind |-> "none", missing |-> {}, text |-> [f \in AiScalars |-> <<>>],
   lists |-> [f \in AiLists |-> <<>>]]

NoModeration == [present |-> FALSE, entries |-> <<>>]

NoEnrichBody ==
  [title |-> <<>>, tags |-> <<>>, parentIds |-> Null, community |-> Null]

NoSimpleResp == [status |-> 0, error |-> ""]

EnrichIdle ==
  /\ enPc = "idle"
  /\ enBody = NoEnrichBody
  /\ enUpload = [public_id |-> Null]
  /\ enAi = NoAi
  /\ enTags = <<>>
  /\ enCalls = <<>>
  /\ enResp = NoSimpleResp

ListIdle ==
  /\ lsPc = "idle"
  /\ lsQuery = [skip |-> 0, limit |-> 0]
  /\ lsCalls = <<>>
  /\ lsResp = [status |-> 0, error |-> "", items |-> <<>>]

AssetsIdle == EnrichIdle /\ ListIdle /\ store = <<>>

SettleLast(calls, outcome) == [calls EXCEPT ![Len(calls)].outcome = outcome]

(* POST of the enrich route, up to the await of the upload. *)
PostEnrich(body) ==
  /\ enPc = "idle" /\ lsPc = "idle" /\ NoRemixRequest /\ NoBatchRequest
  /\ enBody' = body
  /\ enCalls' = <<Call("upload", "pending")>>
  /\ enPc' = "upload"
  /\ UNCHANGED <<enUpload, enAi, enTags, enResp, store, listVars>>

(* The upload settles; the moderation result is inspected and the vision *)
(* call issued.                                                           *)
EnrichUploadReturns(reply) ==
  /\ enPc = "upload"
  /\ IF reply.kind = "error"
       THEN /\ enCalls' = SettleLast(enCalls, "failed")
            /\ enResp' = EnrichCatch(reply.text)
            /\ enPc' = "done"
            /\ UNCHANGED <<enUpload, store>>
     ELSE /\ enUpload' = [public_id |-> reply.public_id]
          /\ store' = <<Asset(reply.public_id, UploadContext(enBody), <<>>)>> \o store
          /\ IF wasRejected(reply.moderation)
               THEN /\ enCalls' = SettleLast(enCalls, "ok")
                    /\ enResp' = [status |-> 500, error |-> PolicyMessage]
                    /\ enPc' = "done"
               ELSE /\ enCalls' = Append(SettleLast(enCalls, "ok"), Call("vision", "pending"))
                    /\ enPc' = "vision"
                    /\ UNCHANGED enResp
  /\ UNCHANGED <<enBody, enAi, enTags, listVars>>

(* The vision call settles; the reply is parsed, the tags merged and the *)
(* write-back issued.                                                     *)
VisionReturns(reply) ==
  /\ enPc = "vision"
  /\ IF reply.kind = "error"
       THEN /\ enCalls' = SettleLast(enCalls, "failed")
            /\ enResp' = EnrichCatch(reply.text)
            /\ enPc' = "done"
            /\ UNCHANGED <<enAi, enTags>>
     ELSE IF reply.kind = "invalidJson"
       THEN /\ enCalls' = SettleLast(enCalls, "ok")
            /\ enResp' = EnrichCatch("SyntaxError")
            /\ enPc' = "done"
            /\ UNCHANGED <<enAi, enTags>>
     ELSE /\ enAi' = reply.ai
          /\ enTags' = mergedTags(reply.ai, enBody.tags)
          /\ enCalls' = Append(SettleLast(enCalls, "ok"), Call("explicit", "pending"))
          /\ enPc' = "explicit"
          /\ UNCHANGED enResp
  /\ UNCHANGED <<enBody, enUpload, store, listVars>>

(* The write-back settles; the response follows at once. *)
ExplicitReturns(reply) ==
  /\ enPc = "explicit"
  /\ IF reply.kind = "error"
       THEN /\ enCalls' = SettleLast(enCalls, "failed")
            /\ enResp' = EnrichCatch(reply.text)
            /\ UNCHANGED store
       ELSE /\ enCalls' = SettleLast(enCalls, "ok")
            /\ enResp' = [status |-> 200, error |-> ""]
            /\ store' = <<Asset(enUpload.public_id, ExplicitContext(enBody, enAi), enTags)>>
                           \o Tail(store)
  /\ enPc' = "done"
  /\ UNCHANGED <<enBody, enUpload, enAi, enTags, listVars>>

(* ------------------------------------------------------------------ *)
(* Enrich route: requests and the replies of the external services     *)
(* ------------------------------------------------------------------ *)
EnrichBodies ==
  { [title |-> ti, tags |-> tg, parentIds |-> Null, community |-> Null] :
      ti \in {<<>>, <<"t">>}, tg \in {<<>>, <<"a", ",", " ", "B">>} }

ModerationEntries ==
  { [status |-> st, kind |-> kd] :
      st \in {"approved", "rejected"}, kd \in {AwsRek, AwsRek \o <<"_", "v">>, Manual} }

Moderations ==
  {NoModeration}
    \cup {[present |-> TRUE, entries |-> es] : es \in SeqsUpTo(ModerationEntries, MaxModeration)}

EnrichUploadReplies ==
  {[kind |-> "error", text |-> e, public_id |-> Null, moderation |-> NoModeration] :
     e \in ProviderErrors}
    \cup {[kind |-> "ok", text |-> "", public_id |-> PublicId, moderation |-> m] :
            m \in Moderations}

ScalarTexts == { <<"a">>, <<"b", " ", "c">> }

OddScalarTexts == { <<>>, <<" ", "a">> }

ListEntries == { <<"a">>, <<"b", " ", "c">>, <<"[", "1", "]">> }

OddLists == { << <<"a", ",", "b">> >>, << <<" ", "a">>, <<"A">> >>, << <<>>, <<"a">> >> }

ListValues == SeqsUpTo(ListEntries, MaxListLen) \cup OddLists

BaseAi ==
  [kind |-> "object", missing |-> {}, text |-> [f \in AiScalars |-> <<"a">>],
   lists |-> [f \in AiLists |-> << <<"a">> >>]]

(* AI replies whose lists hold case variants, and more than TagCap tags. *)
TagExample ==
  [BaseAi EXCEPT !.lists.tags = << <<"A">>, <<"a">>, <<"B">> >>,
                 !.lists.vibe = << <<"b">>, <<"b", " ", "c">> >>,
                 !.lists.objects = <<>>, !.lists.must_keep = <<>>]

ManyTags ==
  {[BaseAi EXCEPT !.lists.tags = Words(TagCap - 1),
                  !.lists.vibe = << <<"A">>, <<"b", " ", "c">> >>,
                  !.lists.objects = << <<"[", "1", "]">> >>,
                  !.lists.must_keep = << <<"b">> >>],
   [BaseAi EXCEPT !.lists.tags = Words(TagCap + 1)]}

AiValues ==
  {[BaseAi EXCEPT !.text[f] = v] : f \in AiScalars, v \in ScalarTexts \cup OddScalarTexts}
    \cup {TagExample} \cup ManyTags
    \cup {[BaseAi EXCEPT !.lists[f] = l] : f \in AiLists, l \in ListValues}
    \cup {[BaseAi EXCEPT !.lists = [f \in AiLists |-> l]] : l \in ListValues}
    \cup {[BaseAi EXCEPT !.missing = AiScalars \cup AiLists]}

(* completion.choices[0]?.message?.content ?? "{}", then JSON.parse. *)
VisionReplies ==
  {[kind |-> "error", text |-> e, ai |-> NoAi] : e \in ProviderErrors}
    \cup {[kind |-> "invalidJson", text |-> "", ai |-> NoAi]}
    \cup {[kind |-> "json", text |-> "", ai |-> ai] : ai \in AiValues}

ExplicitReplies ==
  {[kind |-> "error", text |-> e] : e \in ProviderErrors} \cup {[kind |-> "ok", text |-> ""]}

(* ------------------------------------------------------------------ *)
(* List (recent) route                                                 *)
(* ------------------------------------------------------------------ *)
StringOf(v) ==
  IF v.kind = "str" THEN v.s
  ELSE IF v.kind = "arr" THEN Join(v.a, <<",">>)
  ELSE <<"n", "u", "l", "l">>

RECURSIVE pick(_, _)
pick(obj, keys) ==
  IF keys = <<>> THEN Null
  ELSE LET v == Get(obj, Head(keys))
       IN  IF v # Null /\ Trim(StringOf(v)) # <<>> THEN v ELSE pick(obj, Tail(keys))

(* a ?? b *)
Coalesce(a, b) == IF a # Null THEN a ELSE b

AiKeys ==
  [title |-> <<"aiTitle", "ai_title">>, caption |-> <<"aiCaption", "ai_caption">>,
   style |-> <<"aiStyle", "ai_style">>, trend |-> <<"aiTrend", "ai_trend">>,
   so_me_type |-> <<"aiSoMeType", "ai_so_me_type">>,
   feeling |-> <<"aiFeeling", "ai_feeling">>, subject |-> <<"aiSubject", "ai_subject">>,
   setting |-> <<"aiSetting", "ai_setting">>, medium |-> <<"aiMedium", "ai_medium">>,
   realism |-> <<"aiRealism", "ai_realism">>, lighting |-> <<"aiLighting", "ai_lighting">>,
   palette |-> <<"aiPalette", "ai_palette">>,
   composition |-> <<"aiComposition", "ai_composition">>,
   vibe |-> <<"aiVibe", "ai_vibe">>, objects |-> <<"aiObjects", "ai_objects">>,
   people |-> <<"aiPeople", "ai_people">>, scenes |-> <<"aiScenes", "ai_scenes">>,
   must_keep |-> <<"aiMustKeep", "ai_must_keep">>]

(* AiField resolving key by key instead of container by container. *)
AiFieldKeyMajor(cx, md, f) ==
  Coalesce(Coalesce(pick(cx, <<AiKeys[f][1]>>), pick(md, <<AiKeys[f][1]>>)),
           Coalesce(pick(cx, <<AiKeys[f][2]>>), pick(md, <<AiKeys[f][2]>>)))

AiField(cx, md, f) == Coalesce(pick(cx, AiKeys[f]), pick(md, AiKeys[f]))

DescriptorLists == {"vibe", "objects", "people", "scenes", "must_keep"}

Untitled == <<"U", "n", "t", "i", "t", "l", "e", "d">>

LastSegment(publicId) ==
  LET segs == Split(publicId, "/") IN segs[Len(segs)]

ItemOf(r) ==
  LET cx == r.context
      md == r.metadata
      caption == Coalesce(pick(cx, <<"caption", "Caption">>), pick(md, <<"caption">>))
      alt == Coalesce(pick(cx, <<"alt", "altText", "alt_text">>),
                      pick(md, <<"alt", "altText", "alt_text", "description">>))
      title == Coalesce(caption,
                 Coalesce(pick(md, <<"title">>),
                   IF r.public_id # Null THEN StrV(LastSegment(r.public_id.s))
                   ELSE StrV(Untitled)))
  IN  [publicId |-> r.public_id,
       tags |-> r.tags,
       title |-> title,
       alt |-> alt,
       descriptor |->
         [f \in AiScalars \cup DescriptorLists |->
            IF f = "altText" THEN alt
            ELSE IF f \in DescriptorLists THEN ArrV(csvToArr(AiField(cx, md, f)))
            ELSE AiField(cx, md, f)],
       community |-> Coalesce(pick(cx, <<"community">>), pick(md, <<"community">>)),
       parentIds |-> Coalesce(pick(cx, <<"parentIds", "parent_ids">>),
                              pick(md, <<"parentIds", "parent_ids">>))]

(* Slice ignoring where to start: slice(0, to). *)
SliceFromStart(arr, from, to) == SubSeq(arr, 1, Min(to, Len(arr)))

(* Array.prototype.slice(from, to) for 0 <= from. *)
Slice(arr, from, to) == SubSeq(arr, from + 1, Min(to, Len(arr)))

ListFailureMessage == "Failed to fetch images"

(* The catch block of GET: error is what was thrown. *)
ListCatch(error) == [status |-> 500, error |-> ListFailureMessage, items |-> <<>>]

(* GET of the list route, up to the await of the search. *)
GetRecent(skip, limit) ==
  /\ lsPc = "idle" /\ enPc \in {"idle", "done"} /\ NoRemixRequest /\ NoBatchRequest
  /\ lsQuery' = [skip |-> skip, limit |-> limit]
  /\ lsCalls' = <<Call("search", "pending")>>
  /\ lsPc' = "search"
  /\ UNCHANGED <<lsResp, enrichVars, store>>

(* What the search returns: at most max_results assets, newest first. *)
SearchResult(skip, limit) == Take(store, skip + limit)

(* items: (res.resources || []).slice(skip, skip + limit).map(...) *)
RecentItems(skip, limit) ==
  LET page == Slice(SearchResult(skip, limit), skip, skip + limit)
  IN  [i \in 1..Len(page) |-> ItemOf(page[i])]

(* The search settles; the response follows at once. *)
SearchReturns(ok, err) ==
  /\ lsPc = "search"
  /\ IF ok
       THEN /\ lsCalls' = SettleLast(lsCalls, "ok")
            /\ lsResp' = [status |-> 200, error |-> "",
                          items |-> RecentItems(lsQuery.skip, lsQuery.limit)]
       ELSE /\ lsCalls' = SettleLast(lsCalls, "failed")
            /\ lsResp' = ListCatch(err)
  /\ lsPc' = "done"
  /\ UNCHANGED <<lsQuery, enrichVars, store>>

AssetNext ==
  \/ \E body \in EnrichBodies : PostEnrich(body) /\ UNCHANGED notAssetVars
  \/ \E reply \in EnrichUploadReplies :
       EnrichUploadReturns(reply) /\ UNCHANGED notAssetVars
  \/ \E reply \in VisionReplies : VisionReturns(reply) /\ UNCHANGED notAssetVars
  \/ \E reply \in ExplicitReplies : ExplicitReturns(reply) /\ UNCHANGED notAssetVars
  \/ \E skip \in 0..MaxSkip, limit \in 0..MaxLimit :
       GetRecent(skip, limit) /\ UNCHANGED notAssetVars
  \/ \E ok \in BOOLEAN, e \in ProviderErrors :
       SearchReturns(ok, e) /\ UNCHANGED notAssetVars

(* ------------------------------------------------------------------ *)
(* Batch re-ingest route                                               *)
(* ------------------------------------------------------------------ *)
Image(i) == [id |-> i, url |-> i, title |-> <<"t">>]

BatchData == {[i \in 1..n |-> Image(i)] : n \in 0..MaxBatch}

NoBatchResp == [status |-> 0, error |-> "", body |-> <<>>]

BatchIdle ==
  /\ btPc = "idle"
  /\ btData = <<>>
  /\ btCalls = <<>>
  /\ btResp = NoBatchResp

(* GET has no try/catch: what it throws is answered by the framework. *)
Uncaught == [status |-> 500, error |-> "Internal Server Error", body |-> <<>>]

(* GET of the batch re-ingest route, up to the await of the list fetch. *)
GetReingest ==
  /\ btPc = "idle" /\ NoAssetRequest /\ NoRemixRequest
  /\ btPc' = "recent"
  /\ UNCHANGED <<btData, btCalls, btResp>>

RecentReplies ==
  {[kind |-> "error", data |-> <<>>], [kind |-> "notOk", data |-> <<>>]}
    \cup {[kind |-> "ok", data |-> d] : d \in BatchData}

(* The list fetch settles; every upload fetch of the fan-out is issued and *)
(* Promise.all awaited.                                                    *)
RecentReturns(reply) ==
  /\ btPc = "recent"
  /\ IF reply.kind = "error"
       THEN /\ btResp' = Uncaught
            /\ btPc' = "done"
            /\ UNCHANGED <<btData, btCalls>>
     ELSE IF reply.kind = "notOk"
       THEN /\ btResp' = [status |-> 500, error |-> "Failed to fetch recent images",
                          body |-> <<>>]
            /\ btPc' = "done"
            /\ UNCHANGED <<btData, btCalls>>
     ELSE /\ btData' = reply.data
          /\ btCalls' = [i \in 1..Len(reply.data) |-> "pending"]
          /\ IF reply.data = <<>>
               THEN /\ btResp' = [status |-> 200, error |-> "", body |-> reply.data]
                    /\ btPc' = "done"
               ELSE /\ btPc' = "fanout"
                    /\ UNCHANGED btResp

FetchOutcomes == {"ok", "httpError", "rejected"}

(* The upload fetch of image i settles: fulfilled with a 2xx response,    *)
(* fulfilled with an error response, or rejected. Promise.all rejects on  *)
(* the first rejection and fulfils when every fetch has fulfilled; a      *)
(* fetch still pending when the handler has answered settles later.       *)
UploadFetchSettles(i, outcome) ==
  /\ btPc \in {"fanout", "done"}
  /\ i \in 1..Len(btCalls)
  /\ btCalls[i] = "pending"
  /\ btCalls' = [btCalls EXCEPT ![i] = outcome]
  /\ IF btPc = "fanout" /\ outcome = "rejected"
       THEN /\ btResp' = Uncaught
            /\ btPc' = "done"
     ELSE IF btPc = "fanout" /\ \A j \in 1..Len(btCalls) : j # i => btCalls[j] # "pending"
       THEN /\ btResp' = [status |-> 200, error |-> "", body |-> btData]
            /\ btPc' = "done"
     ELSE UNCHANGED <<btPc, btResp>>
  /\ UNCHANGED btData

BatchNext ==
  \/ GetReingest /\ UNCHANGED notBatchVars
  \/ \E reply \in RecentReplies : RecentReturns(reply) /\ UNCHANGED notBatchVars
  \/ \E i \in 1..MaxBatch, outcome \in FetchOutcomes :
       UploadFetchSettles(i, outcome) /\ UNCHANGED notBatchVars

(* ------------------------------------------------------------------ *)
(* Remix routes: buildAnchors on its own                               *)
(* ------------------------------------------------------------------ *)
AnchorEntries == { <<>>, <<" ">>, <<"a">>, <<"A">>, <<" ", "a">> }

ObjectWords(n) == [i \in 1..n |-> <<"o">> \o Word(i)]

MustKeepLists == SeqsUpTo(AnchorEntries, MaxKeep) \cup {Words(6), Words(11)}

ObjectLists == SeqsUpTo(AnchorEntries, MaxObjects) \cup {ObjectWords(5), ObjectWords(6)}

VibeLists ==
  { <<>>, << <<>> >>, << <<" ">> >>, << <<"a">> >>, << <<" ", "v">>, <<"a">> >> }

PeopleLists == { <<>>, << <<>>, <<"p">> >>, << <<"p">> >>, << <<"a">>, <<"p">> >> }

AnchorExample ==
  [must_keep |-> << <<"l", "a", "m", "p">> >>,
   objects |-> << <<"a">>, <<"b">>, <<"c">>, <<"d">>, <<"e">>, <<"f">> >>,
   vibe |-> << <<"m", "o", "o", "d", "y">> >>,
   people |-> <<>>]

AnchorInputs ==
  {[must_keep |-> m, objects |-> o, vibe |-> v, people |-> p] :
     m \in MustKeepLists, o \in ObjectLists, v \in VibeLists, p \in PeopleLists}
    \cup {AnchorExample}

CsvIdle ==
  /\ csvPc = "off"
  /\ csvIn = Null
  /\ csvOut = <<>>
  /\ csvAgain = <<>>

AnchorsIdle ==
  /\ anPc = "off"
  /\ anHandler = "none"
  /\ anIn = EmptyDescriptor
  /\ anOut = <<>>

AnchorInit ==
  /\ anPc = "input"
  /\ anHandler \in {"multi", "legacy"}
  /\ anIn \in AnchorInputs
  /\ anOut = <<>>
  /\ CsvIdle
  /\ RemixIdle
  /\ AssetsIdle
  /\ BatchIdle

ExtractAnchors ==
  /\ anPc = "input"
  /\ anOut' = buildAnchors(anHandler, anIn)
  /\ anPc' = "built"
  /\ UNCHANGED <<anHandler, anIn, notAnchorVars>>

AnchorNext == ExtractAnchors

(* ------------------------------------------------------------------ *)
(* List route: what the folder can hold                                *)
(* ------------------------------------------------------------------ *)
Absent == [kind |-> "absent"]

(* A container holding vs[i] under ks[i], for the values that are present. *)
Container(ks, vs) ==
  [k \in {ks[i] : i \in {j \in 1..Len(ks) : vs[j] # Absent}} |->
     vs[CHOOSE i \in 1..Len(ks) : ks[i] = k]]

Resource(publicId, context, metadata) ==
  [public_id |-> publicId, context |-> context, metadata |-> metadata, tags |-> <<>>]

(* A value under each of 2 context keys and 2 metadata keys: absent,      *)
(* whitespace, or a letter that tells the four places apart.              *)
SlotValues(letter) == {Absent, StrV(<<" ">>), StrV(<<letter>>)}

OddValues ==
  {Null, StrV(<<>>), StrV(<<" ", "x", " ">>), ArrV(<< <<"x">>, <<"y">> >>)}

FieldContainers(cxKeys, mdKeys) ==
  {[cx |-> Container(cxKeys, <<v1, v2>>), md |-> Container(mdKeys, <<v3, v4>>)] :
     v1 \in SlotValues("a"), v2 \in SlotValues("b"),
     v3 \in SlotValues("c"), v4 \in SlotValues("d")}
    \cup {[cx |-> Container(cxKeys, <<v, Absent>>), md |-> EmptyContainer] : v \in OddValues}
    \cup {[cx |-> Container(cxKeys, <<Absent, v>>),
           md |-> Container(mdKeys, <<StrV(<<"c">>), Absent>>)] : v \in OddValues}
    \cup {[cx |-> EmptyContainer, md |-> Container(mdKeys, <<v, StrV(<<"d">>)>>)] : v \in OddValues}

TwoKeys ==
  {[cx |-> AiKeys[f], md |-> AiKeys[f]] : f \in DOMAIN AiKeys}
    \cup {[cx |-> <<"alt", "alt_text">>, md |-> <<"altText", "description">>],
          [cx |-> <<"alt", "altText">>, md |-> <<"alt", "alt_text">>],
          [cx |-> <<"alt", "description">>, md |-> <<"alt", "description">>],
          [cx |-> <<"caption", "Caption">>, md |-> <<"caption", "title">>],
          [cx |-> <<"parentIds", "parent_ids">>, md |-> <<"parentIds", "parent_ids">>],
          [cx |-> <<"community", "other">>, md |-> <<"community", "other">>]}

PublicIds ==
  {Null, StrV(<<>>), StrV(<<"f", "/">>), StrV(<<"i", "d">>), PublicId}

FieldStores ==
  {<<Resource(PublicId, c.cx, c.md)>> : c \in UNION {FieldContainers(k.cx, k.md) : k \in TwoKeys}}

TitleStores ==
  {<<Resource(id, c.cx, c.md)>> :
     id \in PublicIds,
     c \in FieldContainers(<<"caption", "Caption">>, <<"caption", "title">>)}

NumberedId(i) == StrV(<<"f", "/">> \o Word(i))

(* n plain assets, newest first. *)
PlainStore(n) == [i \in 1..n |-> Resource(NumberedId(i), EmptyContainer, EmptyContainer)]

StoreInputs == FieldStores \cup TitleStores \cup {PlainStore(n) : n \in 0..MaxStore}

ListInit ==
  /\ store \in StoreInputs
  /\ EnrichIdle
  /\ ListIdle
  /\ CsvIdle
  /\ RemixIdle
  /\ BatchIdle
  /\ AnchorsIdle

ListNext ==
  \/ \E skip \in 0..MaxSkip, limit \in 0..MaxLimit :
       GetRecent(skip, limit) /\ UNCHANGED notAssetVars
  \/ \E ok \in BOOLEAN, e \in ProviderErrors :
       SearchReturns(ok, e) /\ UNCHANGED notAssetVars

(* Raw values a stored context or metadata field can hold. *)
Char == {"a", "1", " ", ",", "[", "]", "\""}

BraceChar == {"1", ",", "[", "]", "{", "}"}

ElemStrings ==
  { <<>>, <<" ">>, <<"a">>, <<" ", "a", " ">>, <<"a", ",", "a">>, <<"[", "1", "]">> }

SpecExamples ==
  { StrV(<<"a", ",", " ", "b", ",", " ", ",", "c">>),
    StrV(<<"[", "\"", "x", "\"", ",", "\"", "y", "\"", "]">>),
    StrV(<<"[", "\"", "a", ",", "a", "\"", ",", "1", "]">>) }

RawInputs ==
  {Null}
    \cup {StrV(s) : s \in SeqsUpTo(Char, MaxStrLen) \cup SeqsUpTo(BraceChar, MaxStrLen)}
    \cup {ArrV(a) : a \in SeqsUpTo(ElemStrings, MaxArrLen)}
    \cup SpecExamples

CsvInit ==
  /\ csvPc = "raw"
  /\ csvIn \in RawInputs
  /\ csvOut = <<>>
  /\ csvAgain = <<>>
  /\ RemixIdle
  /\ AssetsIdle
  /\ BatchIdle
  /\ AnchorsIdle

CoerceList ==
  /\ csvPc = "raw"
  /\ csvOut' = csvToArr(csvIn)
  /\ csvPc' = "coerced"
  /\ UNCHANGED <<csvIn, csvAgain, remixVars, assetVars, batchVars, anchorVars>>

RecoerceJoined ==
  /\ csvPc = "coerced"
  /\ csvAgain' = csvToArr(StrV(Join(csvOut, <<",">>)))
  /\ csvPc' = "recoerced"
  /\ UNCHANGED <<csvIn, csvOut, remixVars, assetVars, batchVars, anchorVars>>

CsvNext == CoerceList \/ RecoerceJoined

(* ------------------------------------------------------------------ *)
(* Specifications                                                      *)
(* ------------------------------------------------------------------ *)
Init == CsvIdle /\ RemixIdle /\ AssetsIdle /\ BatchIdle /\ AnchorsIdle

Next == RemixNext \/ AssetNext \/ BatchNext

(* Every route of the backend. *)
Spec == Init /\ [][Next]_vars

SpecRemix == Init /\ [][RemixNext]_vars

SpecAssets == Init /\ [][AssetNext]_vars

SpecBatch == Init /\ [][BatchNext]_vars

(* The list route over every folder of StoreInputs. *)
SpecList == ListInit /\ [][ListNext]_vars

(* csvToArr applied to every raw value of RawInputs. *)
SpecCsv == CsvInit /\ [][CsvNext]_vars

(* buildAnchors of either remix route applied to every descriptor of AnchorInputs. *)
SpecAnchors == AnchorInit /\ [][AnchorNext]_vars

(* ------------------------------------------------------------------ *)
(* Properties of csvToArr                                              *)
(* ------------------------------------------------------------------ *)
IsTrimmedNonEmpty(s) == s # <<>> /\ s[1] # " " /\ s[Len(s)] # " "

(* out holds, in order, the trimmed entries of src that are not empty. *)
IsCleaned(src, out) ==
  LET kept == {i \in 1..Len(src) : Trim(src[i]) # <<>>}
  IN  /\ Len(out) = Cardinality(kept)
      /\ \A i \in kept : out[Cardinality({j \in kept : j <= i})] = Trim(src[i])

IsJsonArrayText(s) ==
  StartsWith(s, "[") /\ EndsWith(s, "]") /\ JsonParse(s).ok /\ JsonParse(s).isArr

\* C8: list coercion is idempotent through comma-joining: coercing the
\* comma-joined rendering of a coerced list gives the same list again.
C8_Idempotent == csvPc = "recoerced" => csvAgain = csvOut

\* C9: csvToArr returns an ordered sequence of trimmed, non-empty strings:
\* absent or empty gives the empty list, an array gives its entries trimmed
\* with the empty ones dropped, a bracket-delimited string that parses as a
\* JSON array gives that array's entries likewise, and every other string
\* is split on commas, trimmed, empties dropped.
C9_Coercion ==
  csvPc # "raw" =>
    /\ \A i \in 1..Len(csvOut) : IsTrimmedNonEmpty(csvOut[i])
    /\ csvIn.kind = "null" => csvOut = <<>>
    /\ csvIn.kind = "arr" => IsCleaned(csvIn.a, csvOut)
    /\ csvIn.kind = "str" =>
         LET s == Trim(csvIn.s)
         IN  IF s = <<>> THEN csvOut = <<>>
             ELSE IF IsJsonArrayText(s) THEN IsCleaned(JsonParse(s).elems, csvOut)
             ELSE IsCleaned(Split(s, ","), csvOut)
    /\ csvIn = StrV(<<"a", ",", " ", "b", ",", " ", ",", "c">>)
         => csvOut = << <<"a">>, <<"b">>, <<"c">> >>
    /\ csvIn = StrV(<<"[", "\"", "x", "\"", ",", "\"", "y", "\"", "]">>)
         => csvOut = << <<"x">>, <<"y">> >>

\* A bracket-delimited string that fails to parse has been split on commas
\* into two or more entries.
C9_Witness ==
  /\ csvPc = "coerced"
  /\ csvIn.kind = "str"
  /\ StartsWith(Trim(csvIn.s), "[") /\ EndsWith(Trim(csvIn.s), "]")
  /\ ~JsonParse(Trim(csvIn.s)).ok
  /\ Len(csvOut) >= 2

(* ------------------------------------------------------------------ *)
(* Properties of the remix routes                                      *)
(* ------------------------------------------------------------------ *)
RemixStarted == rmPc # "idle"

PlanReceived == rmPlan.kind # "none"

\* C2: a plan that violates the RemixPlan schema ends the handler in an
\* error response: no final prompt is rendered from it, no image call is
\* issued and no success response is returned.
C2_SchemaViolationIsError ==
  (PlanReceived /\ ~SchemaValid(rmPlan)) =>
    /\ rmPrompt = <<>>
    /\ \A i \in 1..Len(rmCalls) : rmCalls[i].call # "image"
    /\ rmPc = "done"
    /\ rmResp.status >= 400

PromptRemixLine ==
  LET lines == SelectSeq(rmPrompt, LAMBDA c : c.clause = "remixLine")
  IN  lines[1].parts[1]

\* C3: the strength phrase of the final prompt is the highly-remixed
\* phrase iff strength >= 0.85, the creative-remix phrase iff
\* 0.55 <= strength < 0.85 and the light-remix phrase iff strength < 0.55,
\* in each remix handler.
C3_StrengthTiers ==
  rmPrompt # <<>> =>
    /\ PromptRemixLine = HighlyRemixed(rmHandler) <=> rmStrength >= 850
    /\ PromptRemixLine = CreativeRemix(rmHandler) <=> (rmStrength >= 550 /\ rmStrength < 850)
    /\ PromptRemixLine = LightRemix(rmHandler) <=> rmStrength < 550

(* ------------------------------------------------------------------ *)
(* Properties of the enrich and list routes                            *)
(* ------------------------------------------------------------------ *)
HasRejectedAwsRek(moderation) ==
  /\ moderation.present
  /\ \E i \in 1..Len(moderation.entries) :
       LET m == moderation.entries[i]
       IN  m.status = "rejected" /\ Len(m.kind) >= 7 /\ SubSeq(m.kind, 1, 7) = AwsRek

IssuedAfterUpload(calls) ==
  \E i \in 1..Len(calls) : calls[i].call \in {"vision", "explicit"}

\* C4: when the upload's moderation result holds an aws_rek entry with
\* status "rejected", the enrich handler answers with an error whose
\* message is not the generic failure message, and neither the vision call
\* nor the explicit write-back is issued in that run, then or later.
C4_RejectedUploadIsPolicyError ==
  /\ [][\A reply \in EnrichUploadReplies :
          (/\ reply.kind = "ok"
           /\ HasRejectedAwsRek(reply.moderation)
           /\ EnrichUploadReturns(reply)) =>
            /\ enPc' = "done"
            /\ enResp'.status >= 400
            /\ enResp'.error \notin {"", "Failed to upload image"}
            /\ ~IssuedAfterUpload(enCalls')]_vars
  /\ [][enPc = "done" => enCalls' = enCalls]_vars

\* The handler has answered a rejected upload with the policy message
\* after one call, the upload.
C4_Witness ==
  /\ enPc = "done"
  /\ enResp = [status |-> 500, error |-> "image does not adhere to our policy"]
  /\ enCalls = <<Call("upload", "ok")>>

IsCommaFree(s) == \A i \in 1..Len(s) : s[i] # ","

WrittenCleanly(ai) ==
  /\ ai.kind = "object"
  /\ ai.missing = {}
  /\ \A f \in AiScalars : IsTrimmedNonEmpty(ai.text[f])
  /\ \A f \in DescriptorLists :
       \A i \in 1..Len(ai.lists[f]) :
         IsTrimmedNonEmpty(ai.lists[f][i]) /\ IsCommaFree(ai.lists[f][i])

\* C7: enrich-then-list round trip: when the enrich handler has written
\* back a descriptor (non-empty trimmed scalars; list entries trimmed,
\* non-empty and comma-free), the list handler's descriptor for that asset
\* has every scalar field and every list field (vibe, objects, people,
\* scenes, must_keep) equal to the value written, entry for entry.
C7_RoundTrip ==
  (/\ enPc = "done" /\ enResp.status = 200
   /\ lsPc = "done" /\ lsResp.status = 200
   /\ lsQuery.skip = 0 /\ lsResp.items # <<>>
   /\ WrittenCleanly(enAi)) =>
    LET d == lsResp.items[1].descriptor
    IN  /\ \A f \in AiScalars : d[f] = StrV(enAi.text[f])
        /\ \A f \in DescriptorLists : d[f] = ArrV(enAi.lists[f])

(* ------------------------------------------------------------------ *)
(* Properties of every route                                           *)
(* ------------------------------------------------------------------ *)
GenericMessages ==
  {"Failed to remix images", "Failed to generate content", "Failed to upload image",
   "Failed to fetch images"}

FailedCall(calls) == \E i \in 1..Len(calls) : calls[i].outcome = "failed"

IsGeneric500(pc, status, error) ==
  /\ pc = "done"
  /\ status = 500
  /\ error \in GenericMessages
  /\ error \notin ProviderErrors

\* C5: in the list, enrich and remix handlers, once an external call has
\* failed the handler has answered with status 500 and a fixed generic
\* message; the provider's error text is not in the response.
C5_ExternalFailureIsGeneric500 ==
  /\ FailedCall(rmCalls) =>
       /\ IsGeneric500(rmPc, rmResp.status, rmResp.error)
       /\ rmResp.remixedPrompt = <<>> /\ rmResp.imageUrl = NullValue
  /\ FailedCall(enCalls) => IsGeneric500(enPc, enResp.status, enResp.error)
  /\ FailedCall(lsCalls) =>
       IsGeneric500(lsPc, lsResp.status, lsResp.error) /\ lsResp.items = <<>>

\* The image edit of the multi-image handler has failed, after the
\* downloads and the plan call went through, and the handler has answered.
C5_Witness ==
  /\ rmHandler = "multi"
  /\ rmPc = "done"
  /\ Len(rmCalls) = 3
  /\ rmCalls[3] = Call("image", "failed")
  /\ rmResp.status = 500

(* ------------------------------------------------------------------ *)
(* Properties of the batch re-ingest route                             *)
(* ------------------------------------------------------------------ *)
\* C6: in the batch re-ingest handler a failing upload call does not stop
\* the handler from waiting for its siblings: when the handler answers a
\* batch, no call of the batch is pending, and the result records for each
\* item whether its call succeeded or failed.
C6_FailuresCollectedPerItem ==
  (btPc = "done" /\ btCalls # <<>>) =>
    /\ \A i \in 1..Len(btCalls) : btCalls[i] # "pending"
    /\ Len(btResp.body) = Len(btCalls)
    /\ \A i \in 1..Len(btCalls) :
         /\ "outcome" \in DOMAIN btResp.body[i]
         /\ btResp.body[i].outcome = "success" <=> btCalls[i] = "ok"

(* ------------------------------------------------------------------ *)
(* Properties of buildAnchors                                          *)
(* ------------------------------------------------------------------ *)
Range(seq) == {seq[i] : i \in 1..Len(seq)}

FirstIndex(seq, v) == CHOOSE i \in 1..Len(seq) : seq[i] = v /\ \A j \in 1..(i - 1) : seq[j] # v

(* out holds the distinct values of c in first-seen order, cut to cap. *)
IsFirstDistinct(c, out, cap) ==
  /\ Len(out) <= cap
  /\ \A i \in 1..Len(out) : out[i] \in Range(c)
  /\ \A i, j \in 1..Len(out) : i < j => FirstIndex(c, out[i]) < FirstIndex(c, out[j])
  /\ \A k \in 1..Len(c) :
       c[k] \in Range(out) \/ (Len(out) = cap /\ FirstIndex(c, out[cap]) < k)

FirstOf(arr) == IF arr = <<>> THEN <<>> ELSE <<arr[1]>>

Candidates(d) ==
  d.must_keep \o SubSeq(d.objects, 1, Min(5, Len(d.objects))) \o FirstOf(d.vibe)
    \o FirstOf(d.people)

(* In out, the values of keep come before every other value. *)
KeepFirst(keep, out) ==
  \A i, j \in 1..Len(out) : (i < j /\ out[j] \in Range(keep)) => out[i] \in Range(keep)

\* C10: buildAnchors returns all must_keep entries in order, then the
\* first 5 entries of objects, then the first vibe entry, then the first
\* people entry, each trimmed, later case-sensitive duplicates removed,
\* first-seen order kept, cut to the first 10; the result has at most 10
\* pairwise-distinct entries and must_keep-derived entries come first.
C10_Anchors ==
  anPc = "built" =>
    /\ IsFirstDistinct(MapTrim(Candidates(anIn)), anOut, 10)
    /\ KeepFirst(MapTrim(anIn.must_keep), anOut)

KeptEntries(h, c) ==
  SelectSeq(c, LAMBDA e : IF h = "multi" THEN Trim(e) # <<>> ELSE e # <<>>)

\* C10 as amended: as C10, but empty entries are dropped before
\* duplicates are removed: the multi-image handler drops the entries that
\* are empty after trimming, the legacy-compatible handler those that are
\* empty before trimming (a whitespace-only entry stays, as the empty
\* string).
C10_AnchorsWithoutEmptyEntries ==
  anPc = "built" =>
    /\ IsFirstDistinct(MapTrim(KeptEntries(anHandler, Candidates(anIn))), anOut, 10)
    /\ KeepFirst(MapTrim(KeptEntries(anHandler, anIn.must_keep)), anOut)
    /\ anIn = AnchorExample =>
         anOut = << <<"l", "a", "m", "p">>, <<"a">>, <<"b">>, <<"c">>, <<"d">>, <<"e">>,
                    <<"m", "o", "o", "d", "y">> >>

\* Anchors have been built from a descriptor that has a whitespace-only
\* must_keep entry and more than 5 objects, and 5 objects are among them.
C10_Witness ==
  /\ anPc = "built"
  /\ \E i \in 1..Len(anIn.must_keep) : anIn.must_keep[i] = <<" ">>
  /\ Len(anIn.objects) > 5
  /\ Cardinality(Range(anOut) \cap Range(anIn.objects)) = 5

(* ------------------------------------------------------------------ *)
(* Properties of the merged tags                                       *)
(* ------------------------------------------------------------------ *)
ListOrEmpty(ai, f) == IF f \in ai.missing THEN <<>> ELSE ai.lists[f]

(* The tag sources in order, trimmed, without the empty ones. *)
TagCandidates(ai, tags) ==
  LET all == ListOrEmpty(ai, "tags") \o ListOrEmpty(ai, "vibe") \o ListOrEmpty(ai, "objects")
               \o ListOrEmpty(ai, "must_keep")
               \o (IF tags = <<>> THEN <<>> ELSE Split(tags, ","))
      trimmed == [i \in 1..Len(all) |-> Trim(all[i])]
  IN  SelectSeq(trimmed, LAMBDA t : t # <<>>)

LowerKeys(arr) == [i \in 1..Len(arr) |-> ToLowerCase(arr[i])]

(* out holds the entries of c that are first under their lower-cased key, *)
(* in order, with their own casing, cut to cap.                            *)
IsFirstDistinctIgnoringCase(c, out, cap) ==
  /\ IsFirstDistinct(LowerKeys(c), LowerKeys(out), cap)
  /\ \A i \in 1..Len(out) : out[i] = c[FirstIndex(LowerKeys(c), ToLowerCase(out[i]))]

TagsMerged == enPc \in {"explicit", "done"} /\ enAi.kind = "object"

Listed == lsPc = "done" /\ lsResp.status = 200

IsTrimmedText(v) == v.kind = "str" /\ IsTrimmedNonEmpty(v.s)

\* C12: every scalar field of a descriptor the list handler returns, being
\* what the field resolver (pick) returned, is absent (null) or a
\* non-empty string without leading or trailing whitespace.
C12_ScalarsTrimmedOrAbsent ==
  Listed =>
    \A i \in 1..Len(lsResp.items) :
      \A f \in AiScalars :
        LET v == lsResp.items[i].descriptor[f]
        IN  v = Null \/ IsTrimmedText(v)

(* The asset behind the i-th returned item. *)
ListedAsset(i) == store[lsQuery.skip + i]

IsNonEmpty(v) == v # Null /\ Trim(StringOf(v)) # <<>>

(* The first value of vs that is neither null nor blank, null when none. *)
FirstNonEmpty(vs) ==
  IF \E i \in 1..Len(vs) : IsNonEmpty(vs[i])
    THEN vs[CHOOSE i \in 1..Len(vs) :
              IsNonEmpty(vs[i]) /\ \A j \in 1..(i - 1) : ~IsNonEmpty(vs[j])]
    ELSE Null

ValuesAt(obj, keys) == [i \in 1..Len(keys) |-> Get(obj, keys[i])]

(* Key by key, each key in the context and then in the metadata. *)
KeyMajor(cx, md, keys) ==
  FirstNonEmpty(Flatten([i \in 1..Len(keys) |-> <<Get(cx, keys[i]), Get(md, keys[i])>>]))

(* What the descriptor shows for a resolved raw value of field f. *)
Shown(f, v) == IF f \in DescriptorLists THEN ArrV(csvToArr(v)) ELSE v

\* C13: every AI field of a returned descriptor is resolved key by key: it
\* is the first non-empty value in the order camelCase key in the context,
\* camelCase key in the metadata, snake_case key in the context,
\* snake_case key in the metadata.
C13_KeyMajor ==
  Listed =>
    \A i \in 1..Len(lsResp.items) :
      \A f \in DOMAIN AiKeys :
        lsResp.items[i].descriptor[f] =
          Shown(f, KeyMajor(ListedAsset(i).context, ListedAsset(i).metadata, AiKeys[f]))

(* The keys the handler looks up for the fields it puts on the item. *)
ItemKeys ==
  [alt |-> [cx |-> <<"alt", "altText", "alt_text">>,
            md |-> <<"alt", "altText", "alt_text", "description">>],
   community |-> [cx |-> <<"community">>, md |-> <<"community">>],
   parentIds |-> [cx |-> <<"parentIds", "parent_ids">>, md |-> <<"parentIds", "parent_ids">>]]

CaptionKeys == [cx |-> <<"caption", "Caption">>, md |-> <<"caption">>]

AiFieldKeys(f) == [cx |-> AiKeys[f], md |-> AiKeys[f]]

(* The context's values first, in key order, then the metadata's. *)
ContextFirst(cx, md, keys) ==
  FirstNonEmpty(ValuesAt(cx, keys.cx) \o ValuesAt(md, keys.md))

HasNonEmpty(obj, keys) == \E i \in 1..Len(keys) : IsNonEmpty(Get(obj, keys[i]))

IsValueOf(obj, keys, v) ==
  \E i \in 1..Len(keys) : IsNonEmpty(Get(obj, keys[i])) /\ v = Get(obj, keys[i])

(* Every resolved field of item it of asset r satisfies P(resolved, keys). *)
ForResolved(r, it, P(_, _)) ==
  /\ \A f \in DOMAIN ItemKeys : P(it[f], ItemKeys[f])
  /\ \A f \in DOMAIN AiKeys \ DescriptorLists : P(it.descriptor[f], AiFieldKeys(f))

\* C14 (as amended): for every field the list handler reads (alt text,
\* caption, community, parent ids, every AI field), the resolved value is
\* the first non-empty value among the context's values under the keys
\* looked up in the context, in key order, followed by the metadata's
\* values under the keys looked up in the metadata; so whenever the context
\* holds a non-empty value under a key looked up in the context, the
\* resolved value is one of the context's.
C14_ContextFirst ==
  Listed =>
    \A i \in 1..Len(lsResp.items) :
      LET r == ListedAsset(i)
          it == lsResp.items[i]
          caption == ContextFirst(r.context, r.metadata, CaptionKeys)
      IN  /\ ForResolved(r, it,
               LAMBDA v, keys : v = ContextFirst(r.context, r.metadata, keys))
          /\ ForResolved(r, it,
               LAMBDA v, keys : HasNonEmpty(r.context, keys.cx) =>
                                  IsValueOf(r.context, keys.cx, v))
          /\ \A f \in DescriptorLists :
               it.descriptor[f] =
                 Shown(f, ContextFirst(r.context, r.metadata, AiFieldKeys(f)))
          /\ it.descriptor.altText = it.alt
          /\ caption # Null => it.title = caption

\* An asset was listed whose context is blank under aiTitle and non-empty
\* under ai_title while its metadata is non-empty under aiTitle, and the
\* returned title descriptor is the context's value.
C14_Witness ==
  /\ Listed
  /\ Len(lsResp.items) = 1
  /\ ~IsNonEmpty(Get(ListedAsset(1).context, "aiTitle"))
  /\ IsNonEmpty(Get(ListedAsset(1).context, "ai_title"))
  /\ IsNonEmpty(Get(ListedAsset(1).metadata, "aiTitle"))
  /\ lsResp.items[1].descriptor.title = Get(ListedAsset(1).context, "ai_title")

\* C14 (as stated): for every field, when the context holds a non-empty
\* value under any of the keys the handler tries for that field (in either
\* container), the resolved value is one of those context values.
C14_ContextWinsForAnyKey ==
  Listed =>
    \A i \in 1..Len(lsResp.items) :
      ForResolved(ListedAsset(i), lsResp.items[i],
        LAMBDA v, keys : HasNonEmpty(ListedAsset(i).context, keys.cx \o keys.md) =>
                           IsValueOf(ListedAsset(i).context, keys.cx \o keys.md, v))

(* ------------------------------------------------------------------ *)
(* Properties of the remix handlers: strength, parents, prompt clauses *)
(* ------------------------------------------------------------------ *)
(* The remixStrength of the request in thousandths, the handler's default *)
(* (0.65, 0.7) when the body has none.                                     *)
RequestedStrength ==
  IF rmBody.remixStrength.given THEN rmBody.remixStrength.value
  ELSE IF rmHandler = "multi" THEN 650 ELSE 700

IntoUnitRange(v) == IF v < 0 THEN 0 ELSE IF v > 1000 THEN 1000 ELSE v

\* C15: whatever remixStrength a remix request carries (below 0, above 1,
\* inside, or none), the strength the handler goes on with is that value
\* brought into [0, 1] (below 0 becomes 0, above 1 becomes 1, inside
\* unchanged); that strength is what the planning prompt carries and what
\* chooses the phrase tier of the final prompt, and a request is answered
\* 400 only for having too few parents, never for its strength.
C15_StrengthClamped ==
  /\ rmCalls # <<>> =>
       /\ rmStrength = IntoUnitRange(RequestedStrength)
       /\ rmStrength >= 0 /\ rmStrength <= 1000
  /\ rmMergePrompt.parentSummaries # <<>> =>
       rmMergePrompt.remixStrength = IntoUnitRange(RequestedStrength)
  /\ rmPrompt # <<>> =>
       PromptRemixLine = remixLine(rmHandler, IntoUnitRange(RequestedStrength))
  /\ (RemixStarted /\ rmResp.status = 400) => Len(rmBody.parents) < 2

\* A final prompt has been rendered for a request whose remixStrength is
\* below 0, with the light-remix phrase of strength 0.
C15_Witness ==
  /\ rmPrompt # <<>>
  /\ rmBody.remixStrength.given
  /\ rmBody.remixStrength.value < 0
  /\ rmStrength = 0
  /\ PromptRemixLine = LightRemix(rmHandler)

SummariesBuilt == rmMergePrompt.parentSummaries # <<>>

\* C16: for a request with N parents, the parent summaries of each remix
\* handler are those of exactly the first min(N, 16) parents in list
\* order, and the multi-image handler downloads the image files of exactly
\* those parents in that order.
C16_FirstSixteenParents ==
  SummariesBuilt =>
    LET kept == Min(Len(rmParents), 16)
        summaries == rmMergePrompt.parentSummaries
    IN  /\ Len(summaries) = kept
        /\ \A i \in 1..Min(kept, Len(summaries)) :
             /\ summaries[i].index = i
             /\ summaries[i].anchors = buildAnchors(rmHandler, rmParents[i].descriptor)
             /\ rmHandler = "multi" => summaries[i].url = rmParents[i].url
        /\ rmHandler = "multi" => rmFiles = [i \in 1..kept |-> rmParents[i].url]

(* ------------------------------------------------------------------ *)
(* Properties of the list route: pages and titles                      *)
(* ------------------------------------------------------------------ *)
PublicIdsOf(items) == [i \in 1..Len(items) |-> items[i].publicId]

StoredIds == [i \in 1..Len(store) |-> store[i].public_id]

(* The pages of the given size from the newest asset on, one after the *)
(* other, until the folder is exhausted.                                *)
PagesFrom(skip, limit) ==
  Flatten([k \in 1..(Len(store) + 1) |-> PublicIdsOf(RecentItems(skip + (k - 1) * limit, limit))])

\* C17: with the folder's assets newest first, a list request (skip, limit)
\* returns exactly the assets at positions skip .. skip+limit-1 in that
\* order, fewer when the folder ends before: never more than limit, none
\* from before skip; and the pages skip, skip+limit, skip+2*limit, ... put
\* end to end are the folder from position skip on, each asset once.
C17_Pages ==
  Listed =>
    LET skip == lsQuery.skip
        limit == lsQuery.limit
        ids == PublicIdsOf(lsResp.items)
    IN  /\ Len(ids) = Max(0, Min(limit, Len(store) - skip))
        /\ Len(ids) <= limit
        /\ \A i \in 1..Len(ids) : ids[i] = StoredIds[skip + i]
        /\ ids = PublicIdsOf(RecentItems(skip, limit))
        /\ limit >= 1 =>
             PagesFrom(skip, limit) = SubSeq(StoredIds, skip + 1, Len(store))

\* A page of 2 has been returned from position 1 of a folder of 3 assets:
\* the second and the third asset, without the first.
C17_Witness ==
  /\ Listed
  /\ Len(store) = 3
  /\ lsQuery = [skip |-> 1, limit |-> 2]
  /\ PublicIdsOf(lsResp.items) = <<StoredIds[2], StoredIds[3]>>
  /\ StoredIds[1] # StoredIds[2] /\ StoredIds[2] # StoredIds[3]

(* The title chain of asset r: caption in the context, caption in the   *)
(* metadata, stored title, last path segment of the public id, literal. *)
TitleChain(r) ==
  ValuesAt(r.context, <<"caption", "Caption">>)
    \o <<Get(r.metadata, "caption"),
         Get(r.metadata, "title"),
         IF r.public_id = Null THEN Null ELSE StrV(LastSegment(r.public_id.s)),
         StrV(Untitled)>>

\* C18: the title of every returned record is the first non-empty value of
\* the chain caption (context, then metadata), stored metadata title, last
\* path segment of the public id, "Untitled"; it is never the empty string.
C18_TitleChain ==
  Listed =>
    \A i \in 1..Len(lsResp.items) :
      /\ lsResp.items[i].title = FirstNonEmpty(TitleChain(ListedAsset(i)))
      /\ lsResp.items[i].title # StrV(<<>>)

PromptClauses(name) == SelectSeq(rmPrompt, LAMBDA c : c.clause = name)

PlanList(f) == IF f \in rmPlan.missing THEN <<>> ELSE rmPlan[f]

(* The entries of arr trimmed, without the empty ones. *)
TrimmedNonEmpty(arr) ==
  SelectSeq([i \in 1..Len(arr) |-> Trim(arr[i])], LAMBDA t : t # <<>>)

\* C19: the "Must include" clause of each handler's final prompt lists the
\* plan's must_include items trimmed, without the empty ones and without
\* any item equal ignoring case to an earlier one (the first one's casing
\* kept): no two listed items are equal ignoring case.
C19_MustIncludeDeduped ==
  rmPrompt # <<>> =>
    LET listed == PromptClauses("mustInclude")[1].items
        wanted == TrimmedNonEmpty(PlanList("must_include"))
    IN  /\ IsFirstDistinctIgnoringCase(wanted, listed, Len(wanted))
        /\ \A i, j \in 1..Len(listed) :
             i # j => ToLowerCase(listed[i]) # ToLowerCase(listed[j])

PlanHasText(f) == f \notin rmPlan.missing /\ rmPlan.text[f] # ""

\* C20: in the final prompt the remix directive and the "Style:" clause
\* are present exactly when their plan field has content, and an "Avoid:"
\* clause is present only if it lists at least one non-empty item: there
\* is never an "Avoid: ." clause without items.
C20_OptionalClauses ==
  rmPrompt # <<>> =>
    /\ PromptClauses("directive") # <<>> <=> PlanHasText("remix_directive")
    /\ PromptClauses("style") # <<>> <=> PlanHasText("style_notes")
    /\ \A i \in 1..Len(PromptClauses("avoid")) :
         \E k \in 1..Len(PromptClauses("avoid")[i].items) :
           Trim(PromptClauses("avoid")[i].items[k]) # <<>>

(* ------------------------------------------------------------------ *)
(* Properties of the remix handlers' success responses                 *)
(* ------------------------------------------------------------------ *)
RemixSucceeded == rmPc = "done" /\ rmResp.status = 200

ImageCallOutcomes ==
  {rmCalls[i].outcome : i \in {j \in 1..Len(rmCalls) : rmCalls[j].call = "image"}}

\* C21: every 200 response of a remix handler carries a non-null image
\* URL, and a remix whose image call returned no image data is answered
\* with an error status, not with a success.
C21_SuccessHasImageUrl ==
  /\ RemixSucceeded => rmResp.imageUrl # NullValue
  /\ (rmPc = "done" /\ "empty" \in ImageCallOutcomes) => rmResp.status >= 400

(* The URLs of the parents the summaries were built from, in order; a *)
(* parent fabricated from a description without an id has none.       *)
SummarisedUrls ==
  SelectSeq([i \in 1..Len(rmMergePrompt.parentSummaries) |-> rmParents[i].url],
            LAMBDA u : u # NoUrl)

\* C22: the parentUrls of every success response of a remix handler are
\* exactly the URLs of the parents its summaries (and image inputs) were
\* built from, in the same order; the URL of a parent dropped by the
\* truncation is not among them.
C22_ParentUrlsAreUsedParents ==
  RemixSucceeded =>
    /\ rmResp.parentUrls = SummarisedUrls
    /\ rmHandler = "multi" => rmResp.parentUrls = rmFiles
    /\ \A i \in (Len(rmMergePrompt.parentSummaries) + 1)..Len(rmParents) :
         rmParents[i].url \notin Range(rmResp.parentUrls)

====
